---- MODULE Spec2Model ----
(***************************************************************************)
(* Model of the Snowflake ID generator of src/src/lib.rs (default build,   *)
(* feature "float-safe" off): construction (with_config, builder, new)     *)
(* and generate, including the spin-wait of the sequence-exhaustion path.  *)
(*                                                                         *)
(* u64 values are kept at their full width.  TLC integers stop at 2^31,    *)
(* so a u64 is the triple <<h, m, l>> of its bits 44..63, 22..43 and       *)
(* 0..21: value = h * 2^44 + m * 2^22 + l.                                 *)
(***************************************************************************)
EXTENDS Integers, Sequences, FiniteSets, TLC

----------------------------------------------------------------------------
(* Bounds of the model *)

\* generate calls made in one run, over all generators
MaxCalls == 4
\* the largest timeout_millis a generator is configured with in a run that generates
MaxTimeout == 1

----------------------------------------------------------------------------
(* u64 arithmetic *)

Limb == 2^22
TopLimb == 2^20

U64(n) == <<0, 0, n>>
Zero == U64(0)
One == U64(1)

\* a < b, a <= b on u64 (u64::cmp)
Lt(a, b) ==
    \/ a[1] < b[1]
    \/ a[1] = b[1] /\ a[2] < b[2]
    \/ a[1] = b[1] /\ a[2] = b[2] /\ a[3] < b[3]
Le(a, b) == ~Lt(b, a)

\* a - b on u64, used where a >= b
Sub(a, b) ==
    LET l  == a[3] - b[3]
        bl == IF l < 0 THEN 1 ELSE 0
        m  == a[2] - b[2] - bl
        bm == IF m < 0 THEN 1 ELSE 0
        h  == a[1] - b[1] - bm
    IN  <<h % TopLimb, m % Limb, l % Limb>>

\* a + b on u64, modulo 2^64
Add(a, b) ==
    LET l  == a[3] + b[3]
        m  == (a[2] + b[2]) + (l \div Limb)
        h  == (a[1] + b[1]) + (m \div Limb)
    IN  <<h % TopLimb, m % Limb, l % Limb>>

RECURSIVE BitAnd(_, _)
BitAnd(x, y) ==
    IF x = 0 \/ y = 0 THEN 0
    ELSE (x % 2) * (y % 2) + 2 * BitAnd(x \div 2, y \div 2)

RECURSIVE BitOr(_, _)
BitOr(x, y) ==
    IF x = 0 THEN y
    ELSE IF y = 0 THEN x
    ELSE (IF x % 2 = 1 \/ y % 2 = 1 THEN 1 ELSE 0) + 2 * BitOr(x \div 2, y \div 2)

\* a & b, a | b on u64
And(a, b) == <<BitAnd(a[1], b[1]), BitAnd(a[2], b[2]), BitAnd(a[3], b[3])>>
Or(a, b) == <<BitOr(a[1], b[1]), BitOr(a[2], b[2]), BitOr(a[3], b[3])>>

\* a << r for 0 <= r < 22, modulo 2^64
ShlBits(a, r) ==
    LET lo == 2^(22 - r)
        cl == a[3] \div lo
        l  == (a[3] % lo) * 2^r
        cm == a[2] \div lo
        m  == (a[2] % lo) * 2^r + cl
        hk == IF r < 20 THEN 2^(20 - r) ELSE 1
        h  == ((a[1] % hk) * 2^r + cm) % TopLimb
    IN  <<h, m, l>>

\* a << (22 * q) for q in 0..2, modulo 2^64
ShlLimbs(a, q) ==
    IF q = 0 THEN a
    ELSE IF q = 1 THEN <<a[2] % TopLimb, a[3], 0>>
    ELSE <<a[3] % TopLimb, 0, 0>>

\* a << k on u64 for 0 <= k < 64: the bits shifted past bit 63 are lost
Shl(a, k) == ShlLimbs(ShlBits(a, k % 22), k \div 22)

----------------------------------------------------------------------------
(* Program constants, src/src/lib.rs:73-99 *)

MIN_BITS == 1
TIMEOUT_MILLIS == 1000
WORKER_ID_BITS == 10
\* 1704038400000 = 406274 * 2^22 + 1736704
EPOCH_MILLIS == <<0, 406274, 1736704>>
TIMESTAMP_BITS == 41
SIGN_BITS == 1
MAX_ADJUSTABLE_BITS == 64 - SIGN_BITS - TIMESTAMP_BITS

----------------------------------------------------------------------------
(* Option and Result values *)

None == [some |-> FALSE, v |-> 0]
Some(x) == [some |-> TRUE, v |-> x]
NoneU64 == [some |-> FALSE, v |-> Zero]

\* struct Snowflake; timeout_millis is the Option<u128>
Snowflake(epoch, worker_id, timeout_millis, max_sequence, timestamp_shift, worker_id_shift) ==
    [epoch           |-> epoch,
     last_timestamp  |-> Zero,
     worker_id       |-> worker_id,
     sequence        |-> Zero,
     timeout_millis  |-> timeout_millis,
     max_sequence    |-> max_sequence,
     timestamp_shift |-> timestamp_shift,
     worker_id_shift |-> worker_id_shift]

\* placeholder held where no generator exists
NoSnowflake == Snowflake(Zero, Zero, None, Zero, 0, 0)

\* enum SnowflakeError, and Result<_, SnowflakeError>; msg tells the two
\* ArgumentError messages apart
Ok(v) == [ok |-> TRUE, err |-> "", msg |-> "", val |-> v]
Err(e, v) == [ok |-> FALSE, err |-> e, msg |-> "", val |-> v]
ArgumentError(m) == [ok |-> FALSE, err |-> "ArgumentError", msg |-> m, val |-> NoSnowflake]

----------------------------------------------------------------------------
(* The wall clock.  One reading of SystemTime::now() is either a time       *)
(* before UNIX_EPOCH, a time whose milliseconds do not fit u64, or a u64    *)
(* number of milliseconds since UNIX_EPOCH.                                 *)

Reading(t) == [tag |-> "Time", v |-> t]
BeforeUnixEpoch == [tag |-> "BeforeUnixEpoch", v |-> Zero]
Overflow == [tag |-> "Overflow", v |-> Zero]

\* fn timestamp_millis()
timestamp_millis(rd) ==
    IF rd.tag = "BeforeUnixEpoch" THEN Err("ClockMoveBackwards", Zero)
    ELSE IF rd.tag = "Overflow" THEN Err("FailedConvertToMillis", Zero)
    ELSE Ok(rd.v)

\* fn current_timestamp_millis_since_epoch(&self)
current_timestamp_millis_since_epoch(s, rd) ==
    LET t == timestamp_millis(rd)
    IN  IF ~t.ok THEN t
        ELSE IF Lt(t.val, s.epoch) THEN Err("ClockMoveBackwards", Zero)
        ELSE Ok(Sub(t.val, s.epoch))

----------------------------------------------------------------------------
(* Construction *)

\* Variant: the range taken with its upper bound included (MIN_BITS ..= MAX_ADJUSTABLE_BITS)
BitsInRange_Inclusive(worker_id_bits) ==
    MIN_BITS <= worker_id_bits /\ worker_id_bits <= MAX_ADJUSTABLE_BITS

\* (MIN_BITS .. MAX_ADJUSTABLE_BITS).contains(&worker_id_bits)
BitsInRange(worker_id_bits) ==
    MIN_BITS <= worker_id_bits /\ worker_id_bits < MAX_ADJUSTABLE_BITS

\* (1 << bits) - 1, the mask of max_worker_id and max_sequence
Mask(bits) == Sub(Shl(One, bits), One)

\* Variant: max_worker_id computed as 1 << worker_id_bits, without the - 1
WorkerIdTooLarge_NoMinusOne(worker_id, worker_id_bits) ==
    Lt(Shl(One, worker_id_bits), worker_id)

\* worker_id > max_worker_id
WorkerIdTooLarge(worker_id, worker_id_bits) == Lt(Mask(worker_id_bits), worker_id)

\* Variant: epoch > Self::timestamp_millis()?
EpochNotPast_Strict(epoch, t) == Lt(t, epoch)

\* epoch >= Self::timestamp_millis()?
EpochNotPast(epoch, t) == Le(t, epoch)

\* fn with_config; rd is the clock reading it takes if it reads the clock.
\* The result carries clock_read: whether the clock was read.
with_config(worker_id, worker_id_bits_opt, timeout_millis, epoch_opt, rd) ==
    LET worker_id_bits == IF worker_id_bits_opt.some THEN worker_id_bits_opt.v ELSE WORKER_ID_BITS
        sequence_bits == MAX_ADJUSTABLE_BITS - worker_id_bits
        max_sequence == Mask(sequence_bits)
        worker_id_shift == sequence_bits
        timestamp_shift == worker_id_bits + sequence_bits
        epoch == IF epoch_opt.some THEN epoch_opt.v ELSE EPOCH_MILLIS
        t == timestamp_millis(rd)
    IN  IF ~BitsInRange(worker_id_bits)
        THEN [res |-> ArgumentError("worker id bits"), clock_read |-> FALSE]
        ELSE IF WorkerIdTooLarge(worker_id, worker_id_bits)
        THEN [res |-> ArgumentError("worker id"), clock_read |-> FALSE]
        ELSE IF ~t.ok
        THEN [res |-> Err(t.err, NoSnowflake), clock_read |-> TRUE]
        ELSE IF EpochNotPast(epoch, t.val)
        THEN [res |-> Err("InvalidEpoch", NoSnowflake), clock_read |-> TRUE]
        ELSE [res |-> Ok(Snowflake(epoch, worker_id, timeout_millis, max_sequence,
                                   timestamp_shift, worker_id_shift)),
              clock_read |-> TRUE]

----------------------------------------------------------------------------
(* generate *)

\* Variant: the worker id shifted by timestamp_shift
Pack_WorkerAtTimestampShift(ts, s) ==
    Or(Or(Shl(ts, s.timestamp_shift), Shl(s.worker_id, s.timestamp_shift)), s.sequence)

\* (ts << timestamp_shift) | (worker_id << worker_id_shift) | sequence
Pack(ts, s) ==
    Or(Or(Shl(ts, s.timestamp_shift), Shl(s.worker_id, s.worker_id_shift)), s.sequence)

\* Variant: self.sequence + 1 without the mask
NextSequence_NoMask(s) == Add(s.sequence, One)

\* (self.sequence + 1) & self.max_sequence
NextSequence(s) == And(Add(s.sequence, One), s.max_sequence)

\* The tail of generate: self.last_timestamp = now; Ok(pack)
Finish(s, now) ==
    LET s2 == [s EXCEPT !.last_timestamp = now]
    IN  [sf |-> s2, spin |-> FALSE, res |-> Ok(Pack(now, s2))]

\* Variant: the Less arm storing the wrapped sequence before it fails, as
\* the Equal arm does
LessArm_StoresWrapped(s, now) ==
    LET possible_sequence == NextSequence(s)
        s1 == [s EXCEPT !.sequence = possible_sequence]
    IN  IF Lt(Zero, possible_sequence)
        THEN [sf |-> s1, spin |-> FALSE, res |-> Ok(Pack(s.last_timestamp, s1))]
        ELSE [sf |-> s1, spin |-> FALSE, res |-> Err("ClockMoveBackwards", Zero)]

\* Variant: the Less arm adopting the smaller now as last_timestamp
LessArm_AdoptsNow(s, now) ==
    LET possible_sequence == NextSequence(s)
        s1 == [s EXCEPT !.sequence = possible_sequence, !.last_timestamp = now]
    IN  IF Lt(Zero, possible_sequence)
        THEN [sf |-> s1, spin |-> FALSE, res |-> Ok(Pack(now, s1))]
        ELSE [sf |-> s, spin |-> FALSE, res |-> Err("ClockMoveBackwards", Zero)]

\* Ordering::Less arm
LessArm(s, now) ==
    LET possible_sequence == NextSequence(s)
        s1 == [s EXCEPT !.sequence = possible_sequence]
    IN  IF Lt(Zero, possible_sequence)
        THEN [sf |-> s1, spin |-> FALSE, res |-> Ok(Pack(s.last_timestamp, s1))]
        ELSE [sf |-> s, spin |-> FALSE, res |-> Err("ClockMoveBackwards", Zero)]

\* Ordering::Equal arm up to the spin-wait: spin tells that the loop is entered
EqualArm(s, now) ==
    LET s1 == [s EXCEPT !.sequence = NextSequence(s)]
    IN  IF s1.sequence = Zero
        THEN [sf |-> s1, spin |-> TRUE, res |-> Ok(Zero)]
        ELSE Finish(s1, now)

\* Variant: the Greater arm without self.sequence = 0
GreaterArm_KeepsSequence(s, now) == Finish(s, now)

\* Ordering::Greater arm
GreaterArm(s, now) == Finish([s EXCEPT !.sequence = Zero], now)

\* match now.cmp(&self.last_timestamp)
Ordering(now, s) ==
    IF Lt(now, s.last_timestamp) THEN "Less"
    ELSE IF now = s.last_timestamp THEN "Equal"
    ELSE "Greater"

\* generate from its first line to its return or to the head of the spin loop
generate(s, rd) ==
    LET t == current_timestamp_millis_since_epoch(s, rd)
        now == t.val
        ord == Ordering(now, s)
    IN  IF ~t.ok
        THEN [sf |-> s, spin |-> FALSE, res |-> t, path |-> "Clock", now |-> Zero]
        ELSE LET arm == IF ord = "Less" THEN LessArm(s, now)
                        ELSE IF ord = "Equal" THEN EqualArm(s, now)
                        ELSE GreaterArm(s, now)
             IN  [sf |-> arm.sf, spin |-> arm.spin, res |-> arm.res,
                  path |-> ord, now |-> now]

\* Variant: while now < self.last_timestamp
SpinCond_Strict(now, s) == Lt(now, s.last_timestamp)

\* while now <= self.last_timestamp
SpinCond(now, s) == Le(now, s.last_timestamp)

\* Variant: the wait measured from an Instant taken anew in each iteration,
\* so that the measured wait is always 0
TimedOut_RestartedClock(s, elapsed) == s.timeout_millis.some /\ 0 > s.timeout_millis.v

\* Instant::now().duration_since(timeout_start).as_millis() > timeout_millis
TimedOut(s, elapsed) == s.timeout_millis.some /\ elapsed > s.timeout_millis.v

\* the re-sample of the loop body: if let Ok(latest) = ... { now = latest }
Resample(s, now, rd) ==
    LET t == current_timestamp_millis_since_epoch(s, rd)
    IN  IF t.ok THEN t.val ELSE now

\* the error that re-sample drops: that of the failed read, else the one
\* dropped before it in the same call
ResampleErr(s, dropped, rd) ==
    LET t == current_timestamp_millis_since_epoch(s, rd)
    IN  IF t.ok THEN dropped ELSE t.err

----------------------------------------------------------------------------
(* State *)

\* the generators of a run (each owned by its own thread)
Gens == {1, 2}

VARIABLES
    sf,      \* sf[g]: the Snowflake value of generator g
    pc,      \* pc[g]: "new" (not constructed), "failed" (construction returned
             \*        an error: no generator exists), "idle" (between calls),
             \*        "spin" (inside generate, at the head of the spin loop)
    now,     \* now[g]: the local variable now of the generate call in progress
    elapsed, \* elapsed[g]: milliseconds of the monotonic clock since timeout_start
    before,  \* before[g]: of the call in progress: last_timestamp and sequence
             \*        when it began, the thread that began it, and the error
             \*        of its latest failed clock read ("" if none failed)
    built,   \* built[g]: arguments and result of the latest construction attempt
    hist,    \* hist[g]: the generate calls returned so far, oldest first
    lock     \* the Mutex around generator 1: the thread holding its guard,
             \*        0 when no thread holds it

vars == <<sf, pc, now, elapsed, before, built, hist, lock>>

NotBuilt ==
    [called |-> FALSE, worker_id |-> Zero, worker_id_bits |-> None,
     timeout_millis |-> None, epoch |-> NoneU64, clock |-> BeforeUnixEpoch,
     clock_read |-> FALSE, res |-> Err("", NoSnowflake)]

Init ==
    /\ sf = [g \in Gens |-> NoSnowflake]
    /\ pc = [g \in Gens |-> "new"]
    /\ now = [g \in Gens |-> Zero]
    /\ elapsed = [g \in Gens |-> 0]
    /\ before = [g \in Gens |-> [last_timestamp |-> Zero, sequence |-> Zero,
                                 thread |-> 0, read_err |-> ""]]
    /\ built = [g \in Gens |-> NotBuilt]
    /\ hist = [g \in Gens |-> <<>>]
    /\ lock = 0

\* generate calls begun so far
Calls ==
    Len(hist[1]) + Len(hist[2])
    + Cardinality({g \in Gens : pc[g] = "spin"})

\* one returned generate call, as the caller and the generator's fields saw it
Returned(g, res, path, sample, spun, s0, s1) ==
    [ok |-> res.ok, err |-> res.err, id |-> res.val,
     path |-> path, sample |-> sample, spun |-> spun,
     began_by |-> IF spun THEN before[g].thread ELSE lock, thread |-> lock,
     read_err |-> IF spun THEN before[g].read_err
                  ELSE IF path = "Clock" THEN res.err ELSE "",
     worker_id |-> s1.worker_id,
     before_ts |-> s0.last_timestamp, before_seq |-> s0.sequence,
     after_ts |-> s1.last_timestamp, after_seq |-> s1.sequence]

----------------------------------------------------------------------------
(* Operations *)

\* Snowflake::builder(): the defaults of the builder's fields
builder ==
    [worker_id |-> Zero, worker_id_bits |-> Some(WORKER_ID_BITS),
     timeout_millis |-> Some(TIMEOUT_MILLIS), epoch |-> Some(EPOCH_MILLIS)]

\* SnowflakeBuilder::build -> Snowflake::with_config, on the builder's fields
\* (Snowflake::new is the call with the defaults and a worker id)
Build(g, worker_id, worker_id_bits, timeout_millis, epoch, rd) ==
    /\ pc[g] = "new"
    /\ LET r == with_config(worker_id, worker_id_bits, timeout_millis, epoch, rd)
       IN  /\ built' = [built EXCEPT ![g] =
                 [called |-> TRUE, worker_id |-> worker_id,
                  worker_id_bits |-> worker_id_bits, timeout_millis |-> timeout_millis,
                  epoch |-> epoch, clock |-> rd, clock_read |-> r.clock_read,
                  res |-> r.res]]
           /\ sf' = [sf EXCEPT ![g] = IF r.res.ok THEN r.res.val ELSE @]
           /\ pc' = [pc EXCEPT ![g] = IF r.res.ok THEN "idle" ELSE "failed"]
    /\ UNCHANGED <<now, elapsed, before, hist, lock>>

\* A call of generate, up to its return or to the head of the spin loop
Generate(g, rd) ==
    /\ pc[g] = "idle"
    /\ Calls < MaxCalls
    /\ LET r == generate(sf[g], rd)
       IN  /\ sf' = [sf EXCEPT ![g] = r.sf]
           /\ now' = [now EXCEPT ![g] = r.now]
           /\ before' = [before EXCEPT ![g] =
                 [last_timestamp |-> sf[g].last_timestamp, sequence |-> sf[g].sequence,
                  thread |-> lock, read_err |-> ""]]
           /\ elapsed' = [elapsed EXCEPT ![g] = 0]
           /\ IF r.spin
              THEN /\ pc' = [pc EXCEPT ![g] = "spin"]
                   /\ hist' = hist
              ELSE /\ pc' = pc
                   /\ hist' = [hist EXCEPT ![g] =
                         Append(@, Returned(g, r.res, r.path, r.now, FALSE, sf[g], r.sf))]
    /\ UNCHANGED <<built, lock>>

\* The monotonic clock (Instant) moves on while a generator waits
InstantAdvance(g) ==
    /\ pc[g] = "spin"
    /\ sf[g].timeout_millis.some
    /\ elapsed[g] <= sf[g].timeout_millis.v
    /\ elapsed' = [elapsed EXCEPT ![g] = @ + 1]
    /\ UNCHANGED <<sf, pc, now, before, built, hist, lock>>

\* Loop body, first statement: return Err(WaitForNextPeriodTimeout)
SpinTimeout(g) ==
    /\ pc[g] = "spin"
    /\ SpinCond(now[g], sf[g])
    /\ TimedOut(sf[g], elapsed[g])
    /\ pc' = [pc EXCEPT ![g] = "idle"]
    /\ hist' = [hist EXCEPT ![g] =
          Append(@, Returned(g, Err("WaitForNextPeriodTimeout", Zero), "Equal",
                             before[g].last_timestamp, TRUE, before[g], sf[g]))]
    /\ UNCHANGED <<sf, now, elapsed, before, built, lock>>

\* Loop body, rest: re-sample the clock, spin_loop(), back to the loop head
SpinResample(g, rd) ==
    /\ pc[g] = "spin"
    /\ SpinCond(now[g], sf[g])
    /\ ~TimedOut(sf[g], elapsed[g])
    /\ now' = [now EXCEPT ![g] = Resample(sf[g], now[g], rd)]
    /\ before' = [before EXCEPT ![g].read_err = ResampleErr(sf[g], @, rd)]
    /\ UNCHANGED <<sf, pc, elapsed, built, hist, lock>>

\* Loop left with now > last_timestamp: the tail of generate
SpinExit(g) ==
    /\ pc[g] = "spin"
    /\ ~SpinCond(now[g], sf[g])
    /\ LET r == Finish(sf[g], now[g])
       IN  /\ sf' = [sf EXCEPT ![g] = r.sf]
           /\ hist' = [hist EXCEPT ![g] =
                 Append(@, Returned(g, r.res, "Equal", before[g].last_timestamp,
                                    TRUE, before[g], r.sf))]
    /\ pc' = [pc EXCEPT ![g] = "idle"]
    /\ UNCHANGED <<now, elapsed, before, built, lock>>

\* The spawned threads that share generator 1 behind Arc<Mutex<Snowflake>>;
\* each locks, calls generate once and drops the guard
Threads == 1 .. MaxCalls

\* the generate call of thread t has returned
HasReturned(t) == \E i \in DOMAIN hist[1] : hist[1][i].thread = t

\* snowflake.lock(): thread t gets the guard when no thread holds it
Lock(t) ==
    /\ pc[1] = "idle"
    /\ ~HasReturned(t)
    /\ lock = 0
    /\ lock' = t
    /\ UNCHANGED <<sf, pc, now, elapsed, before, built, hist>>

\* guard.generate() of the thread that holds the guard
LockedGenerate(rd) ==
    /\ lock # 0
    /\ ~HasReturned(lock)
    /\ Generate(1, rd)

\* the guard of thread t goes out of scope after generate has returned
Unlock(t) ==
    /\ pc[1] = "idle"
    /\ lock = t
    /\ HasReturned(t)
    /\ lock' = 0
    /\ UNCHANGED <<sf, pc, now, elapsed, before, built, hist>>

----------------------------------------------------------------------------
(* Inputs *)

\* Clock readings of a run that generates: a time before UNIX_EPOCH, and
\* 0..3 ms after UNIX_EPOCH (0 is before the epoch of GenEpochs)
Readings ==
    {BeforeUnixEpoch} \cup {Reading(U64(n)) : n \in 0..3}

\* Construction arguments of a run that generates: sequence fields of 1 and 2
\* bits, so that a tick's sequence space is exhausted within MaxCalls calls
GenWorkerIds == {U64(1), U64(2^21)}
GenWorkerIdBits == {Some(20), Some(21), Some(22)}
GenTimeouts == {None} \cup {Some(n) : n \in 0..MaxTimeout}
GenEpochs == {Some(U64(1))}
\* the clock at construction: failing, at the epoch, after the epoch
GenBuildReadings == {BeforeUnixEpoch, Reading(U64(1)), Reading(U64(2))}

\* Construction arguments and clock readings of a run that only constructs
BuildWorkerIds ==
    {builder.worker_id, U64(1), U64(1023), U64(1024), U64(2^21 - 1), U64(2^21)}
BuildWorkerIdBits ==
    {builder.worker_id_bits, None, Some(0), Some(1), Some(21), Some(22), Some(100)}
BuildTimeouts == {builder.timeout_millis, None, Some(0)}
BuildEpochs ==
    {builder.epoch, NoneU64, Some(U64(1)), Some(U64(2)), Some(Add(EPOCH_MILLIS, One))}
BuildReadings ==
    {BeforeUnixEpoch, Overflow}
    \cup {Reading(t) : t \in {U64(1), U64(2), EPOCH_MILLIS, Add(EPOCH_MILLIS, One),
                              Add(EPOCH_MILLIS, U64(2))}}

----------------------------------------------------------------------------
(* Specifications *)

\* One generator, constructed and then called
Next ==
    \/ \E w \in GenWorkerIds, b \in GenWorkerIdBits, t \in GenTimeouts,
          e \in GenEpochs, rd \in GenBuildReadings : Build(1, w, b, t, e, rd)
    \/ \E rd \in Readings : Generate(1, rd)
    \/ InstantAdvance(1)
    \/ SpinTimeout(1)
    \/ \E rd \in Readings : SpinResample(1, rd)
    \/ SpinExit(1)

Spec == Init /\ [][Next]_vars

\* The same, with a thread that keeps running and a monotonic clock that
\* keeps moving while the thread waits
FairSpec ==
    /\ Spec
    /\ WF_vars(InstantAdvance(1))
    /\ WF_vars(SpinTimeout(1))
    /\ WF_vars(SpinExit(1))

\* Construction alone, over the wider arguments
NextBuild ==
    \E w \in BuildWorkerIds, b \in BuildWorkerIdBits, t \in BuildTimeouts,
       e \in BuildEpochs, rd \in BuildReadings : Build(1, w, b, t, e, rd)

SpecBuild == Init /\ [][NextBuild]_vars

\* Two generators, each constructed and called by its own thread, interleaved
TwoWorkerIds == {U64(1), U64(2)}
TwoWorkerIdBits == {Some(20), Some(21)}
TwoTimeouts == {Some(0)}
TwoReadings == {Reading(U64(2)), Reading(U64(3))}

NextTwo ==
    \E g \in Gens :
        \/ \E w \in TwoWorkerIds, b \in TwoWorkerIdBits, t \in TwoTimeouts,
              e \in GenEpochs, rd \in TwoReadings : Build(g, w, b, t, e, rd)
        \/ \E rd \in TwoReadings : Generate(g, rd)
        \/ InstantAdvance(g)
        \/ SpinTimeout(g)
        \/ \E rd \in TwoReadings : SpinResample(g, rd)
        \/ SpinExit(g)

SpecTwo == Init /\ [][NextTwo]_vars

\* One generator over the whole range of the clock: timestamps of 1 ms,
\* 2^41 - 1, 2^41, 2^42 - 1, 2^42 and 2^42 + 1 ms after an epoch of 1 and a
\* time whose milliseconds do not fit u64, with the default layout and with
\* a sequence field of 1 bit
WideTimes ==
    {U64(1), <<0, 2^19 - 1, 2^22 - 1>>, <<0, 2^19, 0>>,
     <<0, 2^20 - 1, 2^22 - 1>>, <<0, 2^20, 0>>, <<0, 2^20, 1>>}
WideReadings == {Overflow} \cup {Reading(Add(U64(1), t)) : t \in WideTimes}
WideWorkerIds == {U64(1), U64(1023)}
WideWorkerIdBits == {builder.worker_id_bits, Some(21)}

NextWide ==
    \/ \E w \in WideWorkerIds, b \in WideWorkerIdBits, t \in TwoTimeouts,
          e \in GenEpochs, rd \in TwoReadings : Build(1, w, b, t, e, rd)
    \/ \E rd \in WideReadings : Generate(1, rd)
    \/ InstantAdvance(1)
    \/ SpinTimeout(1)
    \/ \E rd \in WideReadings : SpinResample(1, rd)
    \/ SpinExit(1)

SpecWide == Init /\ [][NextWide]_vars

\* One generator in a Mutex, shared by the threads: a thread calls generate
\* while it holds the guard
SharedWorkerIdBits == {Some(21)}

NextShared ==
    \/ \E w \in TwoWorkerIds, b \in SharedWorkerIdBits, t \in TwoTimeouts,
          e \in GenEpochs, rd \in TwoReadings : Build(1, w, b, t, e, rd)
    \/ \E t \in Threads : Lock(t)
    \/ \E rd \in TwoReadings : LockedGenerate(rd)
    \/ lock # 0 /\ InstantAdvance(1)
    \/ lock # 0 /\ SpinTimeout(1)
    \/ \E rd \in TwoReadings : lock # 0 /\ SpinResample(1, rd)
    \/ lock # 0 /\ SpinExit(1)
    \/ \E t \in Threads : Unlock(t)

SpecShared == Init /\ [][NextShared]_vars

----------------------------------------------------------------------------
(* Reading the calls of a run *)

\* the returned calls of generator g that produced an ID
OkCalls(g) == {i \in DOMAIN hist[g] : hist[g][i].ok}

\* a >> (22 * q), a >> r (0 <= r < 22) and a >> k on u64
ShrLimbs(a, q) ==
    IF q = 0 THEN a
    ELSE IF q = 1 THEN <<0, a[1], a[2]>>
    ELSE <<0, 0, a[1]>>
ShrBits(a, r) ==
    LET lo == 2^r
        up == 2^(22 - r)
    IN  <<a[1] \div lo,
          ((a[1] % lo) * up) + (a[2] \div lo),
          ((a[2] % lo) * up) + (a[3] \div lo)>>
Shr(a, k) == ShrBits(ShrLimbs(a, k \div 22), k % 22)

\* the timestamp field (bits 22 and up) and the sequence field of an ID of g
TimestampField(id) == Shr(id, MAX_ADJUSTABLE_BITS)
SequenceField(g, id) == And(id, sf[g].max_sequence)

\* the value of a u64 below 2^22
Low(x) == x[3]

\* max_worker_id of generator g (with_config's local), from the shifts it kept
MaxWorkerId(g) == Mask(sf[g].timestamp_shift - sf[g].worker_id_shift)

\* the worker field of an ID of g, and bit 63 of an ID
WorkerField(g, id) == And(Shr(id, sf[g].worker_id_shift), MaxWorkerId(g))
SignBit(id) == id[1] \div 2^19

\* generator 1 exists
Constructed == pc[1] \in {"idle", "spin"}

\* generator 1 has the default layout [1][41][10][12]
DefaultLayout ==
    /\ Constructed
    /\ sf[1].timestamp_shift = 64 - SIGN_BITS - TIMESTAMP_BITS
    /\ sf[1].worker_id_shift = MAX_ADJUSTABLE_BITS - WORKER_ID_BITS

----------------------------------------------------------------------------
(* Claims *)

\* C1: no two successful generate calls of one generator return the same ID,
\* whatever the clock readings and also when failed calls lie in between.
C1_Uniqueness ==
    \A i, j \in OkCalls(1) : i # j => hist[1][i].id # hist[1][j].id

\* C2: each successful generate call returns an ID strictly greater than the
\* one returned by the previous successful call of the same generator.
C2_Monotonic ==
    \A i, j \in OkCalls(1) :
        (i < j /\ \A k \in OkCalls(1) : ~(i < k /\ k < j))
            => Lt(hist[1][i].id, hist[1][j].id)

\* C3: a generate call that returns an error leaves last_timestamp and
\* sequence as they were when the call began.
C3_ErrorKeepsState ==
    \A i \in DOMAIN hist[1] :
        ~hist[1][i].ok =>
            /\ hist[1][i].after_ts = hist[1][i].before_ts
            /\ hist[1][i].after_seq = hist[1][i].before_seq

\* C4 as claimed: two generators with different worker_id never return the
\* same ID.
C4_DisjointAnyLayout ==
    (pc[1] # "new" /\ pc[2] # "new" /\ sf[1].worker_id # sf[2].worker_id)
        => \A i \in OkCalls(1), j \in OkCalls(2) : hist[1][i].id # hist[2][j].id

\* C4 as amended: two generators with different worker_id and the same
\* worker_id_bits (the same bit layout) never return the same ID.
C4_DisjointSameLayout ==
    (/\ pc[1] # "new" /\ pc[2] # "new"
     /\ sf[1].worker_id # sf[2].worker_id
     /\ sf[1].worker_id_shift = sf[2].worker_id_shift)
        => \A i \in OkCalls(1), j \in OkCalls(2) : hist[1][i].id # hist[2][j].id

C4_Witness ==
    /\ sf[1].worker_id # sf[2].worker_id
    /\ sf[1].worker_id_shift = sf[2].worker_id_shift
    /\ \E i \in OkCalls(1), j \in OkCalls(2) :
          /\ TimestampField(hist[1][i].id) = TimestampField(hist[2][j].id)
          /\ SequenceField(1, hist[1][i].id) = SequenceField(2, hist[2][j].id)

\* C5: a call that samples now < last_timestamp while (sequence + 1) &
\* max_sequence is non-zero succeeds, sets sequence to sequence + 1, keeps
\* last_timestamp (it does not adopt now) and returns the ID packed from
\* (last_timestamp, worker_id, new sequence).
C5_BackwardTolerance ==
    \A i \in DOMAIN hist[1] :
        LET c == hist[1][i]
        IN  (/\ Lt(c.sample, c.before_ts) /\ c.path # "Clock"
             /\ And(Add(c.before_seq, One), sf[1].max_sequence) # Zero)
                => /\ c.ok
                   /\ c.after_seq = Add(c.before_seq, One)
                   /\ c.after_ts = c.before_ts
                   /\ c.after_ts # c.sample
                   /\ c.id = Or(Or(Shl(c.before_ts, sf[1].timestamp_shift),
                                   Shl(sf[1].worker_id, sf[1].worker_id_shift)),
                                c.after_seq)

C5_Witness ==
    \E i \in OkCalls(1) :
        /\ hist[1][i].path = "Less"
        /\ hist[1][i].before_seq # Zero
        /\ Lt(hist[1][i].sample, sf[1].last_timestamp)

\* C6: with a timeout configured, a call waiting in the exhausted tick ends:
\* unless a clock sample passes last_timestamp, it returns
\* WaitForNextPeriodTimeout, with no ID, after the wait exceeded the timeout.
C6_TimeoutEnds ==
    (pc[1] = "spin" /\ sf[1].timeout_millis.some)
        ~> (/\ pc[1] = "idle"
            /\ Len(hist[1]) > 0
            /\ LET c == hist[1][Len(hist[1])]
               IN  /\ c.spun
                   /\ \/ /\ ~c.ok
                         /\ c.err = "WaitForNextPeriodTimeout"
                         /\ c.id = Zero
                         /\ elapsed[1] > sf[1].timeout_millis.v
                      \/ /\ c.ok
                         /\ Lt(c.before_ts, c.after_ts))

C6_Witness ==
    /\ pc[1] = "idle"
    /\ Len(hist[1]) > 0
    /\ hist[1][Len(hist[1])].err = "WaitForNextPeriodTimeout"
    /\ hist[1][Len(hist[1])].before_seq = sf[1].max_sequence
    /\ elapsed[1] > sf[1].timeout_millis.v

BuiltBits == IF built[1].worker_id_bits.some THEN built[1].worker_id_bits.v ELSE WORKER_ID_BITS
BuiltEpoch == IF built[1].epoch.some THEN built[1].epoch.v ELSE EPOCH_MILLIS
BuiltBitsValid == MIN_BITS <= BuiltBits /\ BuiltBits <= MAX_ADJUSTABLE_BITS - 1
BuiltWorkerIdValid ==
    /\ built[1].worker_id[1] = 0 /\ built[1].worker_id[2] = 0
    /\ Low(built[1].worker_id) <= 2^BuiltBits - 1

\* C8: with valid worker_id_bits, a worker_id above 2^worker_id_bits - 1 is
\* answered with ArgumentError before any clock read, whatever the epoch and
\* the clock; a worker_id within the range never causes an ArgumentError.
C8_WorkerIdRange ==
    (built[1].called /\ BuiltBitsValid) =>
        /\ ~BuiltWorkerIdValid =>
              /\ ~built[1].res.ok
              /\ built[1].res.err = "ArgumentError"
              /\ ~built[1].clock_read
        /\ BuiltWorkerIdValid => built[1].res.err # "ArgumentError"

C8_Witness ==
    /\ built[1].called
    /\ built[1].worker_id = U64(1024)
    /\ built[1].worker_id_bits = Some(10)
    /\ built[1].epoch = Some(Add(EPOCH_MILLIS, One))
    /\ built[1].clock = BeforeUnixEpoch
    /\ built[1].res.err = "ArgumentError"

\* the layout C9 states for a constructed generator
BuiltLayout ==
    LET sequence_bits == MAX_ADJUSTABLE_BITS - BuiltBits
        s == built[1].res.val
    IN  /\ sequence_bits >= 1
        /\ s.worker_id_shift = sequence_bits
        /\ s.timestamp_shift = BuiltBits + sequence_bits
        /\ s.timestamp_shift = MAX_ADJUSTABLE_BITS
        /\ s.max_sequence = U64(2^sequence_bits - 1)

\* C9 as claimed: construction returns ArgumentError exactly when
\* worker_id_bits is outside [1, MAX_ADJUSTABLE_BITS); a constructed generator
\* has the derived layout.
C9_ArgumentErrorIffBits ==
    built[1].called =>
        /\ built[1].res.err = "ArgumentError" <=> ~BuiltBitsValid
        /\ built[1].res.ok => BuiltLayout

\* C9 as amended: construction returns the ArgumentError about the worker id
\* bits exactly when worker_id_bits is outside [1, MAX_ADJUSTABLE_BITS),
\* whatever worker_id and epoch are (the other ArgumentError, about the worker
\* id, is returned with worker_id_bits inside the range); a constructed
\* generator has the derived layout.
C9_BitsErrorIffBits ==
    built[1].called =>
        /\ (built[1].res.err = "ArgumentError" /\ built[1].res.msg = "worker id bits")
              <=> ~BuiltBitsValid
        /\ ~BuiltBitsValid => ~built[1].res.ok /\ ~built[1].clock_read
        /\ built[1].res.ok => BuiltLayout

C9_Witness ==
    /\ built[1].called
    /\ built[1].worker_id_bits = Some(MAX_ADJUSTABLE_BITS)
    /\ built[1].res.err = "ArgumentError"
    /\ built[1].res.msg = "worker id bits"

C11_ClockErrorDistinct ==
    \A i \in DOMAIN hist[1] :
        LET c == hist[1][i]
        IN  /\ c.path = "Clock" => (~c.ok /\ c.err # "ClockMoveBackwards")
            /\ c.err = "ClockMoveBackwards" =>
                  /\ c.path = "Less"
                  /\ Lt(c.sample, c.before_ts)
                  /\ And(Add(c.before_seq, One), sf[1].max_sequence) = Zero

\* C12: in the default layout [1][41][10][12], every ID returned by generate
\* has bit 63 clear and carries the timestamp of the call in bits 22..62,
\* whatever clock reading at or after the epoch the call accepted.
C12_SignBitClear ==
    DefaultLayout =>
        \A i \in OkCalls(1) :
            /\ SignBit(hist[1][i].id) = 0
            /\ TimestampField(hist[1][i].id) = hist[1][i].after_ts

\* C13: every returned ID unpacks to what it was packed from: its worker field
\* is the generator's worker_id, its sequence field is the generator's
\* sequence after the call, its timestamp field is the timestamp the call
\* used (last_timestamp after the call: now for Same and Forward, the latest
\* re-sample after a spin-wait, the kept last_timestamp for an accepted
\* Backward); the worker and sequence fields
\* lie below the timestamp field and do not overlap; and the timestamp
\* fields of successive IDs do not decrease.
C13_RoundTrip ==
    Constructed =>
        /\ \A i \in OkCalls(1) :
              LET c == hist[1][i]
              IN  /\ WorkerField(1, c.id) = sf[1].worker_id
                  /\ SequenceField(1, c.id) = c.after_seq
                  /\ Shr(c.id, sf[1].timestamp_shift) = c.after_ts
                  /\ IF c.path = "Less" THEN c.after_ts = c.before_ts
                     ELSE IF c.spun THEN Lt(c.before_ts, c.after_ts)
                     ELSE c.after_ts = c.sample
        /\ And(Shl(MaxWorkerId(1), sf[1].worker_id_shift), sf[1].max_sequence) = Zero
        /\ Shr(Or(Shl(MaxWorkerId(1), sf[1].worker_id_shift), sf[1].max_sequence),
               sf[1].timestamp_shift) = Zero
        /\ \A i, j \in OkCalls(1) :
              i < j => Le(TimestampField(hist[1][i].id), TimestampField(hist[1][j].id))

\* every generate call runs from its first step to its return under the
\* guard of one thread: a call in progress belongs to the thread holding the
\* guard, and a call is returned to the thread that began it
Serialized ==
    /\ pc[1] = "spin" => (lock \in Threads /\ before[1].thread = lock)
    /\ \A i \in DOMAIN hist[1] :
          hist[1][i].thread \in Threads /\ hist[1][i].began_by = hist[1][i].thread

\* C14: with generator 1 in a mutex shared by the threads, the generate calls
\* are serialized and the IDs returned to all the threads together are
\* pairwise distinct.
C14_SerializedDistinct ==
    /\ Serialized
    /\ \A i, j \in OkCalls(1) : i # j => hist[1][i].id # hist[1][j].id

\* C15: a call that samples now < last_timestamp while (sequence + 1) &
\* max_sequence = 0 returns ClockMoveBackwards at once: it does not enter the
\* spin-wait, returns no ID and leaves sequence and last_timestamp as they were.
C15_BackwardExhaustedFails ==
    \A i \in DOMAIN hist[1] :
        LET c == hist[1][i]
        IN  (/\ c.path # "Clock" /\ Lt(c.sample, c.before_ts)
             /\ And(Add(c.before_seq, One), sf[1].max_sequence) = Zero)
                => /\ ~c.ok
                   /\ c.err = "ClockMoveBackwards"
                   /\ ~c.spun
                   /\ c.id = Zero
                   /\ c.after_seq = c.before_seq
                   /\ c.after_ts = c.before_ts

C15_Witness ==
    /\ pc[1] = "idle"
    /\ \E i \in DOMAIN hist[1] :
          /\ hist[1][i].path = "Less"
          /\ hist[1][i].err = "ClockMoveBackwards"
          /\ hist[1][i].before_seq = sf[1].max_sequence
          /\ hist[1][i].before_seq # Zero
          /\ Lt(hist[1][i].sample, hist[1][i].before_ts)

\* C16: a call that samples now > last_timestamp succeeds, whatever sequence
\* was: it sets sequence to 0 and last_timestamp to now and returns the ID
\* packed from (now, worker_id, 0).
C16_Forward ==
    \A i \in DOMAIN hist[1] :
        LET c == hist[1][i]
        IN  (c.path # "Clock" /\ Lt(c.before_ts, c.sample))
                => /\ c.ok
                   /\ ~c.spun
                   /\ c.after_seq = Zero
                   /\ c.after_ts = c.sample
                   /\ c.id = Or(Shl(c.sample, sf[1].timestamp_shift),
                                Shl(sf[1].worker_id, sf[1].worker_id_shift))

C16_Witness ==
    \E i \in OkCalls(1) :
        /\ hist[1][i].path = "Greater"
        /\ hist[1][i].before_seq # Zero
        /\ hist[1][i].before_ts # Zero
        /\ Lt(hist[1][i].before_ts, hist[1][i].sample)
        /\ sf[1].sequence = Zero

\* C17: in every state of a constructed generator, between calls and inside
\* the spin-wait, sequence <= max_sequence and worker_id, the one given
\* at construction, <= max_worker_id;
\* every call leaves sequence as it was, or at (sequence + 1) & max_sequence,
\* or at 0.
C17_FieldsInRange ==
    Constructed =>
        /\ Le(sf[1].sequence, sf[1].max_sequence)
        /\ Le(sf[1].worker_id, MaxWorkerId(1))
        /\ sf[1].worker_id = built[1].worker_id
        /\ \A i \in DOMAIN hist[1] :
              LET c == hist[1][i]
              IN  /\ Le(c.after_seq, sf[1].max_sequence)
                  /\ \/ c.after_seq = c.before_seq
                     \/ c.after_seq = And(Add(c.before_seq, One), sf[1].max_sequence)
                     \/ c.after_seq = Zero

C17_Witness ==
    /\ pc[1] = "spin"
    /\ before[1].sequence = sf[1].max_sequence
    /\ sf[1].max_sequence # Zero
    /\ sf[1].sequence = Zero
    /\ \E i \in DOMAIN hist[1] : ~hist[1][i].ok

\* C18: no generate call, returning an ID or an error, by the Less, Equal
\* (with or without spin-wait) or Greater arm, leaves last_timestamp smaller
\* than it was when the call began, also when the sample was smaller than
\* last_timestamp; nor is last_timestamp smaller inside the spin-wait.
C18_LastTimestampMonotonic ==
    /\ \A i \in DOMAIN hist[1] : Le(hist[1][i].before_ts, hist[1][i].after_ts)
    /\ \A i, j \in DOMAIN hist[1] :
          i < j => Le(hist[1][i].after_ts, hist[1][j].before_ts)
    /\ pc[1] = "spin" => Le(before[1].last_timestamp, sf[1].last_timestamp)
    /\ (Constructed /\ Len(hist[1]) > 0) =>
          Le(hist[1][Len(hist[1])].after_ts, sf[1].last_timestamp)

C18_Witness ==
    /\ \E i \in DOMAIN hist[1] :
          /\ hist[1][i].path = "Less" /\ hist[1][i].ok
          /\ Lt(hist[1][i].sample, hist[1][i].after_ts)
    /\ \E i \in DOMAIN hist[1] :
          /\ hist[1][i].path = "Less" /\ ~hist[1][i].ok
    /\ \E i \in DOMAIN hist[1] :
          /\ hist[1][i].path = "Greater"
          /\ Lt(Zero, hist[1][i].before_ts)

\* C19: a generate call in which a clock read failed, the initial sample or a
\* re-sample inside the spin-wait, returns the error of that read.
C19_NoErrorSwallowed ==
    \A i \in DOMAIN hist[1] :
        hist[1][i].read_err # "" =>
            (~hist[1][i].ok /\ hist[1][i].err = hist[1][i].read_err)

\* C20: between calls, once a call has returned an ID, last_timestamp is the
\* timestamp field and sequence is the sequence field of the ID returned
\* last, also when failed calls came after it.
C20_StateMirrorsLastId ==
    (pc[1] = "idle" /\ OkCalls(1) # {}) =>
        LET last == CHOOSE i \in OkCalls(1) : \A j \in OkCalls(1) : j <= i
        IN  /\ sf[1].last_timestamp = TimestampField(hist[1][last].id)
            /\ sf[1].sequence = SequenceField(1, hist[1][last].id)

\* calls i..j of generator 1 all sampled a clock below last_timestamp
Regression(i, j) ==
    /\ i <= j
    /\ \A k \in i..j : hist[1][k].path = "Less"

\* C21: over consecutive calls that sample now < last_timestamp, starting
\* with last_timestamp T and sequence s, at most max_sequence - s calls return
\* an ID, each ID has timestamp T and last_timestamp stays T, a call fails
\* exactly when the sequence is exhausted, with ClockMoveBackwards, and after
\* a failed call every further such call fails with ClockMoveBackwards; the
\* first call after them that samples now > last_timestamp returns an ID with
\* sequence 0 and timestamp now.
C21_RegressionRecovery ==
    Constructed =>
        /\ \A i, j \in DOMAIN hist[1] :
              Regression(i, j) =>
                  /\ Cardinality({k \in i..j : hist[1][k].ok})
                        <= Low(sf[1].max_sequence) - Low(hist[1][i].before_seq)
                  /\ \A k \in i..j :
                        /\ hist[1][k].after_ts = hist[1][i].before_ts
                        /\ hist[1][k].ok =>
                              TimestampField(hist[1][k].id) = hist[1][i].before_ts
                        /\ ~hist[1][k].ok <=>
                              hist[1][k].before_seq = sf[1].max_sequence
                        /\ ~hist[1][k].ok => hist[1][k].err = "ClockMoveBackwards"
                  /\ \A k, l \in i..j : (k < l /\ ~hist[1][k].ok) => ~hist[1][l].ok
        /\ \A i \in DOMAIN hist[1] :
              LET c == hist[1][i]
              IN  (/\ i > 1 /\ hist[1][i - 1].path = "Less"
                   /\ c.path # "Clock" /\ Lt(c.before_ts, c.sample))
                      => /\ c.ok
                         /\ c.after_seq = Zero
                         /\ SequenceField(1, c.id) = Zero
                         /\ c.after_ts = c.sample
                         /\ TimestampField(c.id) = c.sample

C21_Witness ==
    \E i \in DOMAIN hist[1] :
        /\ i > 2
        /\ hist[1][i - 2].path = "Less" /\ hist[1][i - 2].ok
        /\ hist[1][i - 1].path = "Less" /\ hist[1][i - 1].err = "ClockMoveBackwards"
        /\ hist[1][i].path = "Greater" /\ hist[1][i].ok
        /\ hist[1][i].after_seq = Zero

====
